---- MODULE Spec2Model ----
(***************************************************************************)
(* Finance_Tracker frontend: the transactions service                      *)
(* (services/transactions.js), the Navbar and the App router.              *)
(*                                                                         *)
(* A service call is an async function: its synchronous part runs up to    *)
(* the first await and hands one request to the api client; when the       *)
(* client's promise settles, the continuation runs and settles the call.   *)
(* The api client itself (./api) is the environment: it records the        *)
(* request it was handed and later fulfils or rejects it.                  *)
(***************************************************************************)
EXTENDS Naturals, Sequences, FiniteSets

VARIABLES calls, requests, location, nav

vars == <<calls, requests, location, nav>>

\* Number of service invocations explored.
MaxCalls == 2

-----------------------------------------------------------------------------
(* JavaScript values, in one uniform shape so that any two can be compared: *)
(* t is the type tag, entries the own key/value pairs of a plain object,    *)
(* items the elements of an array (each the entries of a record).           *)

JsValue(tag, es, is) == [t |-> tag, entries |-> es, items |-> is]

Undefined == JsValue("undefined", {}, <<>>)

Null == JsValue("null", {}, <<>>)

False == JsValue("false", {}, <<>>)

Obj(es) == JsValue("object", es, <<>>)

Arr(is) == JsValue("array", {}, is)

NoError == "none"

\* What callers pass as `filters`; Undefined is also the omitted argument.
FilterArgs ==
    { Undefined, Null, False, Obj({}),
      Obj({<<"category", "food">>}),
      Obj({<<"category", "food">>, <<"type", "expense">>}) }

\* What callers pass as `data`: a full record, one with no amount and no
\* date, and the empty object.
DataArgs ==
    { Obj({<<"amount", "12.50">>, <<"date", "2024-01-05">>, <<"category", "food">>}),
      Obj({<<"description", "lunch">>}),
      Obj({}) }

\* Response bodies the backend may send.
ResponseBodies ==
    { Arr(<<{<<"id", "2">>, <<"category", "rent">>}, {<<"id", "1">>, <<"category", "food">>}>>),
      Obj({<<"id", "3">>, <<"amount", "12.50">>}) }

Responses == { [status |-> "200", data |-> d] : d \in ResponseBodies }

NoResponse == [status |-> "none", data |-> Undefined]

\* Errors the HTTP call may reject with.
HttpErrors == { "Network Error", "Request failed with status code 500" }

-----------------------------------------------------------------------------
(* The api client, as the service sees it. *)

\* api.get(url, config): one GET carrying config.params as query parameters.
apiGet(url, config) ==
    [method |-> "GET", url |-> url, params |-> config.params, data |-> Undefined]

\* api.post(url, data): one POST carrying data as the body.
apiPost(url, data) ==
    [method |-> "POST", url |-> url, params |-> Undefined, data |-> data]

-----------------------------------------------------------------------------
(* services/transactions.js *)

\* A default parameter value replaces the argument only when it is undefined.
DefaultParamFalsy(arg, dflt) == IF arg \in {Undefined, Null, False} THEN dflt ELSE arg

DefaultParam(arg, dflt) == IF arg = Undefined THEN dflt ELSE arg

\* The default of `filters`.
filtersDefaultPaged == Obj({<<"page", "1">>})

filtersDefault == Obj({})

\* The config object getTransactions hands to api.get.
getTransactionsConfigDropping(filters) ==
    [params |-> IF filters.t = "object"
                THEN Obj({e \in filters.entries : e[1] = "category"})
                ELSE filters]

getTransactionsConfig(filters) == [params |-> filters]

\* getTransactions up to its await: the requests issued and the error thrown.
getTransactionsStart(arg) ==
    LET filters == DefaultParam(arg, filtersDefault)
    IN  [issued |-> <<apiGet("/transactions", getTransactionsConfig(filters))>>,
         thrown |-> NoError]

\* getTransactions after its await: the value returned.
getTransactionsReturnFirstPage(res) ==
    IF res.data.t = "array" /\ Len(res.data.items) > 1
    THEN Arr(SubSeq(res.data.items, 1, 1))
    ELSE res.data

getTransactionsReturn(res) == res.data

\* createTransaction up to its await.
createTransactionStartWrapped(data) ==
    [issued |-> <<apiPost("/transactions", Obj(data.entries \cup {<<"id", "0">>}))>>,
     thrown |-> NoError]

createTransactionStartValidated(data) ==
    IF \E e \in data.entries : e[1] = "amount"
    THEN [issued |-> <<apiPost("/transactions", data)>>, thrown |-> NoError]
    ELSE [issued |-> <<>>, thrown |-> "amount is required"]

createTransactionStart(data) ==
    [issued |-> <<apiPost("/transactions", data)>>, thrown |-> NoError]

\* createTransaction after its await.
createTransactionReturn(res) == res.data

Start(fn, arg) ==
    IF fn = "getTransactions" THEN getTransactionsStart(arg) ELSE createTransactionStart(arg)

Return(fn, res) ==
    IF fn = "getTransactions" THEN getTransactionsReturn(res) ELSE createTransactionReturn(res)

\* `await p` in an async function: a fulfilled p resumes the function, which
\* returns; a rejected p throws, and with no try/catch rejects the call with
\* the same error. Nothing further is issued either way.
AwaitSwallow(call, r) ==
    IF r.state = "fulfilled"
    THEN [state |-> "fulfilled", value |-> Return(call.fn, r.response),
          error |-> NoError, issued |-> <<>>]
    ELSE [state |-> "fulfilled", value |-> Arr(<<>>), error |-> NoError, issued |-> <<>>]

AwaitRetry(call, r) ==
    IF r.state = "fulfilled"
    THEN [state |-> "fulfilled", value |-> Return(call.fn, r.response),
          error |-> NoError, issued |-> <<>>]
    ELSE [state |-> "pending", value |-> Undefined, error |-> NoError,
          issued |-> Start(call.fn, call.arg).issued]

Await(call, r) ==
    IF r.state = "fulfilled"
    THEN [state |-> "fulfilled", value |-> Return(call.fn, r.response),
          error |-> NoError, issued |-> <<>>]
    ELSE [state |-> "rejected", value |-> Undefined, error |-> r.error, issued |-> <<>>]

\* The requests a call hands to the client, tagged with the call and in flight.
RECURSIVE Tag(_, _)
Tag(issued, c) ==
    IF issued = <<>> THEN <<>>
    ELSE <<[caller |-> c, method |-> Head(issued).method, url |-> Head(issued).url,
            params |-> Head(issued).params, data |-> Head(issued).data,
            state |-> "inflight", response |-> NoResponse, error |-> NoError]>>
         \o Tag(Tail(issued), c)

\* The call whose continuation waits on request r: each invocation awaits the
\* promise of its own api call.
AwaiterShared(r) ==
    LET pending == {c \in DOMAIN calls : calls[c].state = "pending"}
    IN  CHOOSE c \in pending : \A d \in pending : c <= d

Awaiter(r) == requests[r].caller

-----------------------------------------------------------------------------
(* Navbar.jsx and App *)

\* The `to` of each NavLink.
NavbarLinksTypo == {"/", "/transactions", "/category"}

NavbarLinks == {"/", "/transactions", "/categories"}

\* The Route elements of App.
AppRoutes ==
    { [path |-> "/", element |-> "Home"],
      [path |-> "/transactions", element |-> "Transactions"],
      [path |-> "/categories", element |-> "Categories"] }

RoutePaths == { r.path : r \in AppRoutes }

\* Where the browser may be when the app loads: any URL, routed or not.
Urls == RoutePaths \cup {"/reports"}

\* What App renders at a location: the Navbar, outside Routes, and the element
\* of the matching route.
AppRender(loc) ==
    {"Navbar"} \cup { r.element : r \in { x \in AppRoutes : x.path = loc } }

LinksOffered(loc) == IF "Navbar" \in AppRender(loc) THEN NavbarLinks ELSE {}

-----------------------------------------------------------------------------
(* The state machine *)

Init ==
    /\ calls = <<>>
    /\ requests = <<>>
    /\ location \in Urls
    /\ nav = "load"

\* A page (or any caller) invokes a service function.
Invoke(fn, arg) ==
    /\ Len(calls) < MaxCalls
    /\ LET c == Len(calls) + 1
           s == Start(fn, arg)
       IN  /\ calls' = Append(calls,
                  [fn |-> fn, arg |-> arg,
                   state |-> IF s.thrown = NoError THEN "pending" ELSE "rejected",
                   value |-> Undefined, error |-> s.thrown])
           /\ requests' = requests \o Tag(s.issued, c)
    /\ UNCHANGED <<location, nav>>

InvokeGetTransactions == \E arg \in FilterArgs : Invoke("getTransactions", arg)

InvokeCreateTransaction == \E arg \in DataArgs : Invoke("createTransaction", arg)

\* The settled request, then the continuation of the call that awaits it.
Settle(r, settled) ==
    LET c == Awaiter(r)
        k == Await(calls[c], settled)
    IN  /\ calls' = [calls EXCEPT ![c] =
                        [fn |-> calls[c].fn, arg |-> calls[c].arg, state |-> k.state,
                         value |-> k.value, error |-> k.error]]
        /\ requests' = [requests EXCEPT ![r] = settled] \o Tag(k.issued, c)
        /\ UNCHANGED <<location, nav>>

\* The HTTP call of request r succeeds with some response.
HttpFulfil ==
    \E r \in DOMAIN requests : \E res \in Responses :
        /\ requests[r].state = "inflight"
        /\ Settle(r, [requests[r] EXCEPT !.state = "fulfilled", !.response = res])

\* The HTTP call of request r fails with some error.
HttpReject ==
    \E r \in DOMAIN requests : \E e \in HttpErrors :
        /\ requests[r].state = "inflight"
        /\ Settle(r, [requests[r] EXCEPT !.state = "rejected", !.error = e])

\* The user clicks one of the links on the page.
ClickNavLink ==
    \E to \in LinksOffered(location) :
        /\ location' = to
        /\ nav' = "click"
        /\ UNCHANGED <<calls, requests>>

Next ==
    \/ InvokeGetTransactions
    \/ InvokeCreateTransaction
    \/ HttpFulfil
    \/ HttpReject
    \/ ClickNavLink

Spec == Init /\ [][Next]_vars

-----------------------------------------------------------------------------
(* Helpers of the properties *)

RequestsOf(c) == { r \in DOMAIN requests : requests[r].caller = c }

CallsOf(fn) == { c \in DOMAIN calls : calls[c].fn = fn }

Fulfilled(c) == calls[c].state = "fulfilled"

Rejected(c) == calls[c].state = "rejected"

-----------------------------------------------------------------------------
(* Properties *)

\* C1: every createTransaction(data) call issues a POST to "/transactions"
\* whose body is exactly data, and once that request has succeeded with res
\* the call has resolved to exactly res.data.
C1_CreatePassThrough ==
    \A c \in CallsOf("createTransaction") :
        /\ RequestsOf(c) # {}
        /\ \A r \in RequestsOf(c) :
              /\ requests[r].method = "POST"
              /\ requests[r].url = "/transactions"
              /\ requests[r].data = calls[c].arg
              /\ requests[r].state = "fulfilled" =>
                    /\ Fulfilled(c)
                    /\ calls[c].value = requests[r].response.data

C1_Witness ==
    \E c \in CallsOf("createTransaction") :
        /\ calls[c].arg.entries # {}
        /\ Fulfilled(c)
        /\ calls[c].value.t = "object"

\* C2: every getTransactions(f) call with a filters mapping f issues a GET to
\* "/transactions" whose query parameters are exactly the entries of f.
C2_FiltersAreTheParams ==
    \A c \in CallsOf("getTransactions") :
        calls[c].arg.t = "object" =>
            /\ RequestsOf(c) # {}
            /\ \A r \in RequestsOf(c) :
                  /\ requests[r].method = "GET"
                  /\ requests[r].url = "/transactions"
                  /\ requests[r].params.t = "object"
                  /\ requests[r].params.entries = calls[c].arg.entries

C2_Witness ==
    \E c \in CallsOf("getTransactions") :
        /\ calls[c].arg = Obj({<<"category", "food">>, <<"type", "expense">>})
        /\ \E r \in RequestsOf(c) : <<"type", "expense">> \in requests[r].params.entries

\* C3: getTransactions called with no argument issues a GET to "/transactions"
\* with an empty parameter mapping.
C3_NoFiltersNoParams ==
    \A c \in CallsOf("getTransactions") :
        calls[c].arg = Undefined =>
            /\ RequestsOf(c) # {}
            /\ \A r \in RequestsOf(c) :
                  /\ requests[r].method = "GET"
                  /\ requests[r].url = "/transactions"
                  /\ requests[r].params = Obj({})

C3_Witness ==
    \E c \in CallsOf("getTransactions") :
        /\ calls[c].arg = Undefined
        /\ \E r \in RequestsOf(c) : requests[r].params.entries = {}

\* C4: once the GET of a getTransactions call has succeeded with res, the call
\* has resolved to exactly res.data, whatever the filters were.
C4_ListReturnedUnchanged ==
    \A c \in CallsOf("getTransactions") :
        \A r \in RequestsOf(c) :
            requests[r].state = "fulfilled" =>
                /\ Fulfilled(c)
                /\ calls[c].value = requests[r].response.data

C4_Witness ==
    \E c \in CallsOf("getTransactions") :
        /\ calls[c].arg = Obj({<<"category", "food">>})
        /\ Fulfilled(c)
        /\ calls[c].value.t = "array"
        /\ Len(calls[c].value.items) = 2

\* C5: when the HTTP call of a service call has failed with error e, the
\* service call is rejected with that same e: it is not resolved and holds no
\* substituted value.
C5_FailurePropagates ==
    \A c \in DOMAIN calls :
        \A r \in RequestsOf(c) :
            requests[r].state = "rejected" =>
                /\ Rejected(c)
                /\ calls[c].error = requests[r].error
                /\ calls[c].value = Undefined

C5_Witness ==
    /\ \E c \in CallsOf("getTransactions") : Rejected(c) /\ calls[c].error \in HttpErrors
    /\ \E c \in CallsOf("createTransaction") : Rejected(c) /\ calls[c].error \in HttpErrors

\* C6: every invocation has issued exactly one HTTP request, whether that
\* request is in flight, has succeeded or has failed.
C6_OneRequestPerCall ==
    /\ \A c \in DOMAIN calls : Cardinality(RequestsOf(c)) = 1
    /\ Len(requests) = Len(calls)

C6_Witness ==
    /\ Len(requests) = 2
    /\ \E c \in DOMAIN calls : Rejected(c)
    /\ \E c \in DOMAIN calls : Fulfilled(c)

\* C7: with several calls in flight, each call's outcome is the outcome of its
\* own request: pending while that request is in flight, resolved with that
\* request's response body, or rejected with that request's error.
C7_OwnOutcomeOnly ==
    \A c \in DOMAIN calls :
        \E r \in RequestsOf(c) :
            \/ requests[r].state = "inflight" /\ calls[c].state = "pending"
            \/ /\ requests[r].state = "fulfilled"
               /\ Fulfilled(c)
               /\ calls[c].value = Return(calls[c].fn, requests[r].response)
            \/ /\ requests[r].state = "rejected"
               /\ Rejected(c)
               /\ calls[c].error = requests[r].error

\* The later call has settled while the earlier one is still pending.
C7_Witness ==
    /\ Len(calls) = 2
    /\ calls[1].state = "pending"
    /\ calls[2].state # "pending"

\* C8: createTransaction validates nothing: whatever the payload, the POST is
\* issued, and the call is rejected only if that request was rejected.
C8_NoClientValidation ==
    \A c \in CallsOf("createTransaction") :
        /\ \E r \in RequestsOf(c) : requests[r].method = "POST"
        /\ Rejected(c) => \E r \in RequestsOf(c) : requests[r].state = "rejected"

C8_Witness ==
    \E c \in CallsOf("createTransaction") :
        /\ calls[c].arg = Obj({})
        /\ \E r \in RequestsOf(c) : requests[r].data = Obj({})
        /\ Fulfilled(c)

\* C9: the Navbar's links and App's routes are the same three paths, the
\* Navbar is rendered on every routed page, so every other page is one click
\* away, and a click never leads to a path without a route.
C9_NavigationClosed ==
    /\ NavbarLinks = RoutePaths
    /\ Cardinality(RoutePaths) = Cardinality(AppRoutes)
    /\ nav = "click" => location \in RoutePaths
    /\ location \in RoutePaths =>
          /\ "Navbar" \in AppRender(location)
          /\ RoutePaths \ {location} \subseteq LinksOffered(location)

C9_Witness == nav = "click" /\ location = "/categories"

\* C10: the empty default applies only to an undefined argument: any other
\* value, null included, is forwarded as params unchanged, so the params of
\* getTransactions(null) and of getTransactions() differ.
C10_DefaultOnlyForUndefined ==
    /\ \A c \in CallsOf("getTransactions") :
          calls[c].arg # Undefined =>
              \A r \in RequestsOf(c) : requests[r].params = calls[c].arg
    /\ \A c, d \in CallsOf("getTransactions") :
          calls[c].arg = Null /\ calls[d].arg = Undefined =>
              \A r \in RequestsOf(c) : \A q \in RequestsOf(d) :
                  requests[r].params # requests[q].params

C10_Witness ==
    \E c, d \in CallsOf("getTransactions") :
        /\ calls[c].arg = Null
        /\ calls[d].arg = Undefined
        /\ RequestsOf(c) # {}
        /\ RequestsOf(d) # {}

====
